---- MODULE Spec2Model ----
(***************************************************************************)
(* Model of app.js: an express server with one route, GET /, that runs one *)
(* query on a mysql2 connection pool, asks the S3 presigner for a signed   *)
(* URL of one object and renders views/index.ejs with both results.        *)
(*                                                                         *)
(* The mysql2 pool, the S3 presigner, express and ejs are libraries; they  *)
(* are modelled by their documented contracts at the places app.js calls   *)
(* them:                                                                   *)
(*  - pool.query checks a connection out (at most connectionLimit at a     *)
(*    time, further callers queue first-in first-out), runs the query,     *)
(*    returns the connection and calls back with (err) or (null, rows);    *)
(*  - pool.end refuses every later checkout ("Pool is closed."), lets the  *)
(*    queries already running on a connection finish and calls back once   *)
(*    every connection is closed;                                          *)
(*  - getSignedUrl settles with a URL that carries the signing date (one   *)
(*    second resolution) and the requested validity, or rejects;           *)
(*  - <%= x %> prints the HTML-escaped text of x, nothing for null.        *)
(* SIGINT is delivered to the handler of line 79, that is once the script  *)
(* body has run; a repeated SIGINT calls db.end on a pool that is already  *)
(* closing and is not modelled as a separate step.                         *)
(***************************************************************************)
EXTENDS Integers, Sequences, FiniteSets, TLC

VARIABLES
    env,              \* process.env: variable name -> value
    procPc,           \* position of the main script / process life cycle
    exitCode,         \* argument of process.exit, NoExit while running
    portBound,        \* app.listen has been executed
    poolClosed,       \* db.end has been called
    queue,            \* requests waiting for a pool connection (FIFO)
    inUse,            \* requests whose query runs on a checked-out connection
    otherQueries,     \* connections checked out by requests not tracked one by one
    now,              \* wall clock, in seconds
    pc,               \* per request: position in the GET / handler
    results,          \* per request: `results` of the db.query callback
    signParams,       \* per request: arguments given to getSignedUrl
    url,              \* per request: `url`, the awaited value
    response,         \* per request: what was sent to the client
    log,              \* console.error output
    events,           \* per request: history of the handler's steps
    before,           \* per request: requests already answered when it arrived
    issuedAt,         \* per request: clock value when its URL was issued
    inFlightAtSignal  \* requests whose query was running when SIGINT arrived

vars == <<env, procPc, exitCode, portBound, poolClosed, queue, inUse,
          otherQueries, now, pc, results, signParams, url, response, log,
          events, before, issuedAt, inFlightAtSignal>>

procVars == <<procPc, exitCode, portBound>>
poolVars == <<poolClosed, queue, inUse, otherQueries>>
reqVars  == <<pc, results, signParams, url, response, log, events, before, issuedAt>>

----------------------------------------------------------------------------
(* Bounds of the model *)

MaxReq == 2

MaxTime == 1

Requests == 1..MaxReq

----------------------------------------------------------------------------
(* Program constants *)

connectionLimit == 10

expiresIn == 3600

BannerKey == "banner.jpg"

DbErrorBody == "Database error"

S3ErrorBody == "S3 error"

DbLogMsg == "Error fetching data from database:"

S3LogMsg == "Error fetching static file from S3:"

DbEnvMsg == "Missing required environment variables for database connection"

AwsEnvMsg == "Missing required AWS environment variables"

DbEnvVars == {"DB_HOST", "DB_USER", "DB_PASSWORD", "DB_NAME"}

AwsEnvVars == {"AWS_ACCESS_KEY_ID", "AWS_SECRET_ACCESS_KEY", "AWS_REGION", "S3_BUCKET_NAME"}

EnvVars == DbEnvVars \cup AwsEnvVars

----------------------------------------------------------------------------
(* Values *)

Undefined == "\\undefined"

EnvValues == {Undefined, "", "value"}

NoExit == -1

NULL == <<"\\NULL">>

\* `results` before the callback has run
NoRows == <<[id |-> 0, name |-> NULL, description |-> NULL, price |-> NULL]>>

NoUrl == [Bucket |-> Undefined, Key |-> Undefined, Date |-> -1, Expires |-> -1]

NoParams == [Bucket |-> Undefined, Key |-> Undefined, expiresIn |-> -1]

NoPage == [bannerUrl |-> NoUrl, items |-> <<>>]

NoResponse == [status |-> 0, kind |-> "none", text |-> <<>>, page |-> NoPage]

PoolClosedError == "Pool is closed."

DbErrors == {"ER_NO_SUCH_TABLE"}

S3Errors == {"CredentialsProviderError"}

Product1 ==
    [id |-> 1, name |-> <<"P", "1">>, description |-> <<"a", "&", "b">>,
     price |-> <<"1", "9", ".", "9", "9">>]

Product2 ==
    [id |-> 2, name |-> <<"<", "b", ">">>, description |-> NULL,
     price |-> <<"5", ".", "0", "0">>]

Tables == {<< >>, <<Product1, Product2>>}

----------------------------------------------------------------------------
(* Pure functions *)

\* JavaScript !x for an environment value: unset or empty string
Falsy(x) == x = Undefined \/ x = ""

MissingDbEnv(e) ==
    Falsy(e["DB_HOST"]) \/ Falsy(e["DB_USER"]) \/ Falsy(e["DB_PASSWORD"]) \/ Falsy(e["DB_NAME"])

\* variant: the bucket name is left out of the check
MissingAwsEnv_NoBucket(e) ==
    Falsy(e["AWS_ACCESS_KEY_ID"]) \/ Falsy(e["AWS_SECRET_ACCESS_KEY"])
        \/ Falsy(e["AWS_REGION"])

MissingAwsEnv(e) ==
    Falsy(e["AWS_ACCESS_KEY_ID"]) \/ Falsy(e["AWS_SECRET_ACCESS_KEY"])
        \/ Falsy(e["AWS_REGION"]) \/ Falsy(e["S3_BUCKET_NAME"])

\* ejs escapeXML on one character
EscapeChar(c) ==
    CASE c = "&" -> "&amp;"
      [] c = "<" -> "&lt;"
      [] c = ">" -> "&gt;"
      [] c = "\"" -> "&#34;"
      [] c = "'" -> "&#39;"
      [] OTHER -> c

\* <%= value %>: nothing for null/undefined, else the escaped text
escapeXML(markup) ==
    IF markup = NULL THEN << >>
    ELSE [i \in 1..Len(markup) |-> EscapeChar(markup[i])]

\* one <li> of index.ejs
RenderItem(product) ==
    [name |-> escapeXML(product.name),
     description |-> escapeXML(product.description),
     price |-> escapeXML(product.price)]

\* variant: the items come out in reverse order
render_Reversed(products, bannerUrl) ==
    [bannerUrl |-> bannerUrl,
     items |-> [i \in 1..Len(products) |-> RenderItem(products[Len(products) + 1 - i])]]

\* index.ejs with { products, bannerUrl }
render(products, bannerUrl) ==
    [bannerUrl |-> bannerUrl,
     items |-> [i \in 1..Len(products) |-> RenderItem(products[i])]]

\* variant: a validity of six minutes
SignCommand_ShortExpiry(e) ==
    [Bucket |-> e["S3_BUCKET_NAME"], Key |-> BannerKey, expiresIn |-> 360]

\* new GetObjectCommand({Bucket, Key}) and the options of getSignedUrl
SignCommand(e) ==
    [Bucket |-> e["S3_BUCKET_NAME"], Key |-> BannerKey, expiresIn |-> expiresIn]

\* the URL the presigner produces at time t
getSignedUrl(params, t) ==
    [Bucket |-> params.Bucket, Key |-> params.Key, Date |-> t, Expires |-> params.expiresIn]

\* res.status(500).send(text)
ErrorResponse(text) ==
    [status |-> 500, kind |-> "text", text |-> <<text>>, page |-> NoPage]

\* variant: the error text is appended to the body
DatabaseErrorResponse_Leak(err) ==
    [status |-> 500, kind |-> "text", text |-> <<DbErrorBody, err>>, page |-> NoPage]

DatabaseErrorResponse(err) == ErrorResponse(DbErrorBody)

\* variant: the catch block sends the database body
S3ErrorResponse_SameBody(err) == ErrorResponse(DbErrorBody)

S3ErrorResponse(err) == ErrorResponse(S3ErrorBody)

\* res.render('index', ...) with the default status
PageResponse(products, bannerUrl) ==
    [status |-> 200, kind |-> "html", text |-> <<>>, page |-> render(products, bannerUrl)]

checkedOut == Cardinality(inUse) + otherQueries

Alive == procPc \in {"listening", "ending"}

----------------------------------------------------------------------------
(* Initial state: the process has been started with some environment *)

Init ==
    /\ env \in [EnvVars -> EnvValues]
    /\ procPc = "createPool"
    /\ exitCode = NoExit
    /\ portBound = FALSE
    /\ poolClosed = FALSE
    /\ queue = << >>
    /\ inUse = {}
    /\ otherQueries = 0
    /\ now = 0
    /\ pc = [r \in Requests |-> "idle"]
    /\ results = [r \in Requests |-> NoRows]
    /\ signParams = [r \in Requests |-> NoParams]
    /\ url = [r \in Requests |-> NoUrl]
    /\ response = [r \in Requests |-> NoResponse]
    /\ log = {}
    /\ events = [r \in Requests |-> << >>]
    /\ before = [r \in Requests |-> {}]
    /\ issuedAt = [r \in Requests |-> -1]
    /\ inFlightAtSignal = {}

----------------------------------------------------------------------------
(* Start-up: the script body, lines 13-85 *)

\* mysql.createPool(...): no connection is opened yet
CreatePool ==
    /\ procPc = "createPool"
    /\ procPc' = "checkDb"
    /\ UNCHANGED <<env, exitCode, portBound, poolVars, now, reqVars, inFlightAtSignal>>

\* if (!DB_HOST || !DB_USER || !DB_PASSWORD || !DB_NAME) { error; exit(1) }
CheckDbEnv ==
    /\ procPc = "checkDb"
    /\ IF MissingDbEnv(env)
       THEN /\ log' = log \cup {[req |-> 0, msg |-> DbEnvMsg, err |-> ""]}
            /\ procPc' = "exited"
            /\ exitCode' = 1
       ELSE /\ procPc' = "checkAws"
            /\ UNCHANGED <<log, exitCode>>
    /\ UNCHANGED <<env, portBound, poolVars, now, pc, results, signParams, url,
                   response, events, before, issuedAt, inFlightAtSignal>>

\* if (!AWS_ACCESS_KEY_ID || ... || !S3_BUCKET_NAME) { error; exit(1) }
CheckAwsEnv ==
    /\ procPc = "checkAws"
    /\ IF MissingAwsEnv(env)
       THEN /\ log' = log \cup {[req |-> 0, msg |-> AwsEnvMsg, err |-> ""]}
            /\ procPc' = "exited"
            /\ exitCode' = 1
       ELSE /\ procPc' = "startServer"
            /\ UNCHANGED <<log, exitCode>>
    /\ UNCHANGED <<env, portBound, poolVars, now, pc, results, signParams, url,
                   response, events, before, issuedAt, inFlightAtSignal>>

\* S3 client, middleware, route, app.listen and the SIGINT handler
StartServer ==
    /\ procPc = "startServer"
    /\ procPc' = "listening"
    /\ portBound' = TRUE
    /\ UNCHANGED <<env, exitCode, poolVars, now, reqVars, inFlightAtSignal>>

\* the clock advances
Tick ==
    /\ procPc \in {"listening", "ending"}
    /\ now < MaxTime
    /\ now' = now + 1
    /\ UNCHANGED <<env, procVars, poolVars, reqVars, inFlightAtSignal>>

----------------------------------------------------------------------------
(* GET / *)

\* the route handler up to db.query(query, callback); requests are numbered
\* in their order of arrival
Get(r) ==
    /\ procPc \in {"listening", "ending"}
    /\ portBound
    /\ pc[r] = "idle"
    /\ \A q \in Requests : q < r => pc[q] # "idle"
    /\ pc' = [pc EXCEPT ![r] = "waiting"]
    /\ queue' = Append(queue, r)
    /\ events' = [events EXCEPT ![r] = <<"query">>]
    /\ before' = [before EXCEPT ![r] = {q \in Requests : pc[q] = "done"}]
    /\ UNCHANGED <<env, procVars, poolClosed, inUse, otherQueries, now, results,
                   signParams, url, response, log, issuedAt, inFlightAtSignal>>

\* variant: the error branch lacks its return and falls through to the signing
QueryCallbackErr_NoReturn(r, err) ==
    /\ log' = log \cup {[req |-> r, msg |-> DbLogMsg, err |-> err]}
    /\ response' = [response EXCEPT ![r] = DatabaseErrorResponse(err)]
    /\ signParams' = [signParams EXCEPT ![r] = SignCommand(env)]
    /\ events' = [events EXCEPT ![r] = @ \o <<"queryErr", "send", "sign">>]
    /\ pc' = [pc EXCEPT ![r] = "signing"]
    /\ UNCHANGED <<results, url, before, issuedAt>>

\* the callback's error branch: log, 500 'Database error', return
QueryCallbackErr(r, err) ==
    /\ log' = log \cup {[req |-> r, msg |-> DbLogMsg, err |-> err]}
    /\ response' = [response EXCEPT ![r] = DatabaseErrorResponse(err)]
    /\ events' = [events EXCEPT ![r] = @ \o <<"queryErr", "send">>]
    /\ pc' = [pc EXCEPT ![r] = "done"]
    /\ UNCHANGED <<results, signParams, url, before, issuedAt>>

\* the callback's success branch up to the await of getSignedUrl
QueryCallbackOk(r, rows) ==
    /\ results' = [results EXCEPT ![r] = rows]
    /\ signParams' = [signParams EXCEPT ![r] = SignCommand(env)]
    /\ events' = [events EXCEPT ![r] = @ \o <<"queryOk", "sign">>]
    /\ pc' = [pc EXCEPT ![r] = "signing"]
    /\ UNCHANGED <<url, response, log, before, issuedAt>>

\* the pool hands a connection to the first waiting request
PoolGrant(r) ==
    /\ procPc \in {"listening", "ending"}
    /\ ~poolClosed
    /\ queue # << >> /\ Head(queue) = r
    /\ checkedOut < connectionLimit
    /\ queue' = Tail(queue)
    /\ inUse' = inUse \cup {r}
    /\ pc' = [pc EXCEPT ![r] = "querying"]
    /\ UNCHANGED <<env, procVars, poolClosed, otherQueries, now, results, signParams,
                   url, response, log, events, before, issuedAt, inFlightAtSignal>>

\* a closed pool fails the checkout: callback(err)
PoolReject(r) ==
    /\ procPc \in {"listening", "ending"}
    /\ poolClosed
    /\ queue # << >> /\ Head(queue) = r
    /\ queue' = Tail(queue)
    /\ QueryCallbackErr(r, PoolClosedError)
    /\ UNCHANGED <<env, procVars, poolClosed, inUse, otherQueries, now, inFlightAtSignal>>

\* the query fails; the connection returns to the pool; callback(err)
QueryFail(r, err) ==
    /\ procPc \in {"listening", "ending"}
    /\ pc[r] = "querying"
    /\ inUse' = inUse \ {r}
    /\ QueryCallbackErr(r, err)
    /\ UNCHANGED <<env, procVars, poolClosed, queue, otherQueries, now, inFlightAtSignal>>

\* the query succeeds; the connection returns; callback(null, rows)
QueryOk(r, rows) ==
    /\ procPc \in {"listening", "ending"}
    /\ pc[r] = "querying"
    /\ inUse' = inUse \ {r}
    /\ QueryCallbackOk(r, rows)
    /\ UNCHANGED <<env, procVars, poolClosed, queue, otherQueries, now, inFlightAtSignal>>

\* variant: the URL of an earlier request is kept and reused
SignOk_Cached(r) ==
    /\ procPc \in {"listening", "ending"}
    /\ pc[r] = "signing"
    /\ LET cached == {url[q] : q \in {q \in Requests : url[q] # NoUrl}}
           u == IF cached # {} THEN CHOOSE c \in cached : TRUE
                ELSE getSignedUrl(signParams[r], now)
       IN /\ url' = [url EXCEPT ![r] = u]
          /\ response' = [response EXCEPT ![r] = PageResponse(results[r], u)]
    /\ issuedAt' = [issuedAt EXCEPT ![r] = now]
    /\ events' = [events EXCEPT ![r] = @ \o <<"signOk", "render", "send">>]
    /\ pc' = [pc EXCEPT ![r] = "done"]
    /\ UNCHANGED <<env, procVars, poolVars, now, results, signParams, log, before,
                   inFlightAtSignal>>

\* variant: the rows are kept in one variable shared by all requests, so the
\* page shows the rows of the latest query
SignOk_SharedResults(r) ==
    /\ procPc \in {"listening", "ending"}
    /\ pc[r] = "signing"
    /\ LET u == getSignedUrl(signParams[r], now)
           holders == {q \in Requests : results[q] # NoRows}
           latest == CHOOSE q \in holders : \A o \in holders : o <= q
       IN /\ url' = [url EXCEPT ![r] = u]
          /\ response' = [response EXCEPT ![r] = PageResponse(results[latest], u)]
    /\ issuedAt' = [issuedAt EXCEPT ![r] = now]
    /\ events' = [events EXCEPT ![r] = @ \o <<"signOk", "render", "send">>]
    /\ pc' = [pc EXCEPT ![r] = "done"]
    /\ UNCHANGED <<env, procVars, poolVars, now, results, signParams, log, before,
                   inFlightAtSignal>>

\* variant: the render throws after sending, and the catch block sends again
SignOk_CatchAfterRender(r) ==
    /\ procPc \in {"listening", "ending"}
    /\ pc[r] = "signing"
    /\ LET u == getSignedUrl(signParams[r], now)
       IN /\ url' = [url EXCEPT ![r] = u]
          /\ response' = [response EXCEPT ![r] = S3ErrorResponse("render")]
    /\ issuedAt' = [issuedAt EXCEPT ![r] = now]
    /\ events' = [events EXCEPT ![r] = @ \o <<"signOk", "render", "send", "send">>]
    /\ pc' = [pc EXCEPT ![r] = "done"]
    /\ UNCHANGED <<env, procVars, poolVars, now, results, signParams, log, before,
                   inFlightAtSignal>>

\* the awaited promise fulfils: res.render('index', {products, bannerUrl})
SignOk(r) ==
    /\ procPc \in {"listening", "ending"}
    /\ pc[r] = "signing"
    /\ LET u == getSignedUrl(signParams[r], now)
       IN /\ url' = [url EXCEPT ![r] = u]
          /\ response' = [response EXCEPT ![r] = PageResponse(results[r], u)]
    /\ issuedAt' = [issuedAt EXCEPT ![r] = now]
    /\ events' = [events EXCEPT ![r] = @ \o <<"signOk", "render", "send">>]
    /\ pc' = [pc EXCEPT ![r] = "done"]
    /\ UNCHANGED <<env, procVars, poolVars, now, results, signParams, log, before,
                   inFlightAtSignal>>

\* the awaited promise rejects: catch (err) { log; 500 'S3 error' }
SignFail(r, err) ==
    /\ procPc \in {"listening", "ending"}
    /\ pc[r] = "signing"
    /\ log' = log \cup {[req |-> r, msg |-> S3LogMsg, err |-> err]}
    /\ response' = [response EXCEPT ![r] = S3ErrorResponse(err)]
    /\ events' = [events EXCEPT ![r] = @ \o <<"signErr", "send">>]
    /\ pc' = [pc EXCEPT ![r] = "done"]
    /\ UNCHANGED <<env, procVars, poolVars, now, results, signParams, url, before,
                   issuedAt, inFlightAtSignal>>

----------------------------------------------------------------------------
(* Shutdown *)

\* process.on('SIGINT'): db.end(callback)
Sigint ==
    /\ procPc = "listening"
    /\ procPc' = "ending"
    /\ poolClosed' = TRUE
    /\ inFlightAtSignal' = inUse
    /\ UNCHANGED <<env, exitCode, portBound, queue, inUse, otherQueries, now, reqVars>>

\* variant: process.exit(0) is called without waiting for the pool
PoolEnded_NoWait ==
    /\ procPc = "ending"
    /\ procPc' = "exited"
    /\ exitCode' = 0
    /\ UNCHANGED <<env, portBound, poolVars, now, reqVars, inFlightAtSignal>>

\* the callback of db.end: every connection is closed; process.exit(0)
PoolEnded ==
    /\ procPc = "ending"
    /\ checkedOut = 0
    /\ procPc' = "exited"
    /\ exitCode' = 0
    /\ UNCHANGED <<env, portBound, poolVars, now, reqVars, inFlightAtSignal>>

----------------------------------------------------------------------------
(* Requests that are not tracked one by one: they only occupy connections *)

OtherQueryStart ==
    /\ procPc \in {"listening", "ending"}
    /\ ~poolClosed
    /\ queue = << >>
    /\ checkedOut < connectionLimit
    /\ otherQueries' = otherQueries + 1
    /\ UNCHANGED <<env, procVars, poolClosed, queue, inUse, now, reqVars, inFlightAtSignal>>

OtherQueryEnd ==
    /\ procPc \in {"listening", "ending"}
    /\ otherQueries > 0
    /\ otherQueries' = otherQueries - 1
    /\ UNCHANGED <<env, procVars, poolClosed, queue, inUse, now, reqVars, inFlightAtSignal>>

----------------------------------------------------------------------------
(* Specifications *)

Next ==
    \/ CreatePool
    \/ CheckDbEnv
    \/ CheckAwsEnv
    \/ StartServer
    \/ Tick
    \/ \E r \in Requests : Get(r)
    \/ \E r \in Requests : PoolGrant(r)
    \/ \E r \in Requests : PoolReject(r)
    \/ \E r \in Requests, e \in DbErrors : QueryFail(r, e)
    \/ \E r \in Requests, t \in Tables : QueryOk(r, t)
    \/ \E r \in Requests : SignOk(r)
    \/ \E r \in Requests, e \in S3Errors : SignFail(r, e)
    \/ Sigint
    \/ PoolEnded
    \/ OtherQueryStart
    \/ OtherQueryEnd

Spec == Init /\ [][Next]_vars

\* The tracked requests alone, with the fairness the runtime gives: the
\* script body runs to its end, a pending checkout is served, a running
\* query calls back, an awaited promise settles.
NextLive ==
    \/ CreatePool
    \/ CheckDbEnv
    \/ CheckAwsEnv
    \/ StartServer
    \/ Tick
    \/ \E r \in Requests : Get(r)
    \/ \E r \in Requests : PoolGrant(r)
    \/ \E r \in Requests : PoolReject(r)
    \/ \E r \in Requests, e \in DbErrors : QueryFail(r, e)
    \/ \E r \in Requests, t \in Tables : QueryOk(r, t)
    \/ \E r \in Requests : SignOk(r)
    \/ \E r \in Requests, e \in S3Errors : SignFail(r, e)
    \/ Sigint
    \/ PoolEnded

Fairness ==
    /\ WF_vars(CreatePool \/ CheckDbEnv \/ CheckAwsEnv \/ StartServer)
    /\ \A r \in Requests :
          /\ WF_vars(PoolGrant(r) \/ PoolReject(r))
          /\ WF_vars((\E e \in DbErrors : QueryFail(r, e))
                         \/ (\E t \in Tables : QueryOk(r, t)))
          /\ WF_vars(SignOk(r) \/ (\E e \in S3Errors : SignFail(r, e)))

LiveSpec == Init /\ [][NextLive]_vars /\ Fairness

----------------------------------------------------------------------------
(* Helpers of the properties *)

Has(seq, x) == \E i \in 1..Len(seq) : seq[i] = x

Count(seq, x) == Cardinality({i \in 1..Len(seq) : seq[i] = x})

Precedes(seq, x, y) ==
    \E i, j \in 1..Len(seq) : i < j /\ seq[i] = x /\ seq[j] = y

\* what a browser shows for one escaped character
UnescapeChar(c) ==
    CASE c = "&amp;" -> "&"
      [] c = "&lt;" -> "<"
      [] c = "&gt;" -> ">"
      [] c = "&#34;" -> "\""
      [] c = "&#39;" -> "'"
      [] OTHER -> c

Shown(html) == [i \in 1..Len(html) |-> UnescapeChar(html[i])]

\* the text of a column value: nothing for NULL
TextOf(value) == IF value = NULL THEN << >> ELSE value

Succeeded(r) == pc[r] = "done" /\ Has(events[r], "signOk")

ExpiresAt(u) == u.Date + u.Expires

----------------------------------------------------------------------------
(* Properties *)

\* C1: within one request the signing call is started only after that
\* request's query has called back successfully, and a request whose query
\* failed never starts a signing call.
C1_SignAfterQuerySuccess ==
    \A r \in Requests :
        /\ \A j \in 1..Len(events[r]) :
              events[r][j] = "sign" =>
                  \E i \in 1..(j - 1) : events[r][i] = "queryOk"
        /\ Has(events[r], "sign") => Precedes(events[r], "query", "queryOk")
        /\ Has(events[r], "queryErr") =>
              /\ ~Has(events[r], "sign")
              /\ signParams[r] = NoParams
        /\ pc[r] = "signing" => Has(events[r], "queryOk") /\ results[r] # NoRows

C1_Witness ==
    \E r, q \in Requests :
        /\ pc[r] = "signing" /\ Has(events[r], "sign")
        /\ pc[q] = "done" /\ Has(events[q], "queryErr")

MissingConfig ==
    \E v \in {"DB_HOST", "DB_USER", "DB_PASSWORD", "DB_NAME", "AWS_ACCESS_KEY_ID",
              "AWS_SECRET_ACCESS_KEY", "AWS_REGION", "S3_BUCKET_NAME"} :
        env[v] = Undefined \/ env[v] = ""

\* C2: with one of the eight required variables unset or empty the process
\* gets no further than the start-up checks and ends there with exit status
\* 1; it never executes app.listen and handles no request.
C2_MissingConfigExitsOne ==
    /\ [](MissingConfig =>
             /\ procPc \in {"createPool", "checkDb", "checkAws", "exited"}
             /\ procPc = "exited" => exitCode = 1
             /\ exitCode \in {NoExit, 1}
             /\ ~portBound
             /\ \A r \in Requests : pc[r] = "idle" /\ events[r] = << >>)
    /\ MissingConfig ~> (procPc = "exited" /\ exitCode = 1)

C2_Witness ==
    /\ \A v \in DbEnvVars : env[v] = "value"
    /\ env["S3_BUCKET_NAME"] = ""
    /\ \A v \in AwsEnvVars \ {"S3_BUCKET_NAME"} : env[v] = "value"
    /\ procPc = "exited"
    /\ exitCode = 1

\* C3: a request whose query failed is answered 500 with the fixed body
\* 'Database error', which holds none of the error's text; the error is
\* logged, and nothing is rendered for the request.
C3_DatabaseError ==
    \A r \in Requests :
        Has(events[r], "queryErr") =>
            /\ response[r].status = 500
            /\ response[r].text = <<"Database error">>
            /\ response[r].page = NoPage
            /\ ~Has(events[r], "render")
            /\ \E l \in log : l.req = r /\ l.msg = DbLogMsg
            /\ \A l \in log : l.req = r => ~Has(response[r].text, l.err)

C3_Witness ==
    \E r \in Requests :
        /\ Has(events[r], "queryErr")
        /\ pc[r] = "done"
        /\ \E l \in log : l.req = r /\ l.err = "ER_NO_SUCH_TABLE"

\* C4: a request whose query succeeded and whose signing failed is answered
\* 500 with the body 'S3 error', different from the body of a database
\* failure; its rows are dropped: nothing is rendered and the response holds
\* no row data.
C4_SigningError ==
    \A r \in Requests :
        Has(events[r], "signErr") =>
            /\ Has(events[r], "queryOk")
            /\ response[r].status = 500
            /\ response[r].text = <<"S3 error">>
            /\ response[r].text # <<"Database error">>
            /\ \A e \in DbErrors \cup {PoolClosedError} :
                   response[r] # DatabaseErrorResponse(e)
            /\ ~Has(events[r], "render")
            /\ response[r].page = NoPage
            /\ response[r].page.items = << >>

C4_Witness ==
    \E r \in Requests :
        /\ Has(events[r], "signErr")
        /\ pc[r] = "done"
        /\ Len(results[r]) = 2

\* C5: a request whose query and signing both succeeded is answered 200 with
\* the page of exactly the rows of its query and the URL just issued: one
\* item per row, in the order returned, each showing the row's name,
\* description and price.
C5_RenderedPage ==
    \A r \in Requests :
        Succeeded(r) =>
            /\ response[r].status = 200
            /\ response[r].kind = "html"
            /\ response[r].page.bannerUrl = url[r]
            /\ url[r] # NoUrl
            /\ Len(response[r].page.items) = Len(results[r])
            /\ \A i \in 1..Len(results[r]) :
                  /\ Shown(response[r].page.items[i].name) = TextOf(results[r][i].name)
                  /\ Shown(response[r].page.items[i].description)
                        = TextOf(results[r][i].description)
                  /\ Shown(response[r].page.items[i].price) = TextOf(results[r][i].price)

C5_Witness ==
    \E r \in Requests :
        /\ Succeeded(r)
        /\ results[r] = <<Product1, Product2>>
        /\ Len(response[r].page.items) = 2

C7_DistinctTimestamps ==
    \A r, q \in Requests :
        r \in before[q] /\ Succeeded(r) /\ Succeeded(q) =>
            /\ Count(events[r], "query") = 1 /\ Count(events[q], "query") = 1
            /\ Count(events[r], "sign") = 1 /\ Count(events[q], "sign") = 1
            /\ url[r].Date # url[q].Date

\* C7 amended: of two successful requests in sequence each runs its own query
\* and its own signing call, and each signed URL carries the clock second of
\* its own signing call; the later URL's timestamp is never the earlier one
\* and differs from it whenever the two calls fall in different seconds.
C7_OwnQueryAndSigning ==
    \A r, q \in Requests :
        r \in before[q] /\ Succeeded(r) /\ Succeeded(q) =>
            /\ Count(events[r], "query") = 1 /\ Count(events[q], "query") = 1
            /\ Count(events[r], "sign") = 1 /\ Count(events[q], "sign") = 1
            /\ url[r].Date = issuedAt[r] /\ url[q].Date = issuedAt[q]
            /\ response[r].page.bannerUrl.Date = issuedAt[r]
            /\ response[q].page.bannerUrl.Date = issuedAt[q]
            /\ issuedAt[r] <= issuedAt[q]
            /\ issuedAt[r] # issuedAt[q] => url[r].Date # url[q].Date

C7_Witness ==
    \E r, q \in Requests :
        /\ r \in before[q] /\ Succeeded(r) /\ Succeeded(q)
        /\ issuedAt[r] < issuedAt[q]
        /\ results[r] # results[q]

C9_SigningRequest ==
    \A r \in Requests :
        /\ Has(events[r], "sign") =>
              /\ signParams[r].Key = "banner.jpg"
              /\ signParams[r].Bucket = env["S3_BUCKET_NAME"]
              /\ signParams[r].expiresIn = 3600
        /\ Succeeded(r) =>
              /\ response[r].page.bannerUrl.Key = "banner.jpg"
              /\ response[r].page.bannerUrl.Bucket = env["S3_BUCKET_NAME"]
              /\ ExpiresAt(response[r].page.bannerUrl) = issuedAt[r] + 3600

C9_Witness ==
    \E r \in Requests :
        /\ Succeeded(r)
        /\ issuedAt[r] = 1
        /\ ExpiresAt(response[r].page.bannerUrl) = 3601

\* C10: a request is answered at most once, by the rendered page with 200,
\* by 500 'Database error' or by 500 'S3 error'; a response once sent is not
\* followed by another; and a request that has entered the handler is
\* answered unless the termination signal arrives.
C10_OneResponse ==
    /\ [](\A r \in Requests :
             /\ Count(events[r], "send") <= 1
             /\ pc[r] = "done" <=> Count(events[r], "send") = 1
             /\ response[r] = NoResponse <=> Count(events[r], "send") = 0
             /\ ~(Has(events[r], "render") /\ Has(events[r], "signErr"))
             /\ pc[r] = "done" =>
                   \/ /\ response[r].status = 200
                      /\ response[r].kind = "html"
                      /\ Has(events[r], "render")
                   \/ /\ response[r] = ErrorResponse("Database error")
                      /\ Has(events[r], "queryErr")
                   \/ /\ response[r] = ErrorResponse("S3 error")
                      /\ Has(events[r], "signErr"))
    /\ [][\A r \in Requests : response[r] # NoResponse => response'[r] = response[r]]_vars
    /\ \A r \in Requests : (pc[r] # "idle") ~> (pc[r] = "done" \/ poolClosed)

C10_Witness ==
    \E r, q \in Requests :
        /\ ~poolClosed
        /\ pc[r] = "done" /\ response[r].status = 200
        /\ pc[q] = "done" /\ response[q] = ErrorResponse("S3 error")

====
